---- MODULE Spec2Model ----
(***************************************************************************)
(* Model of src/main.py (SudokuSolver): the candidate-set board, the       *)
(* assign/eliminate propagation, the three strategies, propagate_all,      *)
(* search and solve, board construction and as_string.                     *)
(*                                                                         *)
(* Cells are numbered 1..81 in the order of the list CELLS (row-major:     *)
(* "A1" is 1, "A2" is 2, ..., "I9" is 81); digits are 1..9.  A grid        *)
(* string is a sequence of 81 characters, a character being a digit 1..9   *)
(* or 0 for any non-digit character ('.', '0').                            *)
(***************************************************************************)
EXTENDS Integers, Sequences, FiniteSets, TLC

VARIABLES
    values,     \* self.values: cell -> set of candidate digits
    alive,      \* TRUE iff the last construction returned an object
    grid,       \* the grid string the current object was constructed from
    op,         \* the last operation performed
    arg,        \* its arguments, <<cell, digit>> for assign and eliminate
    ret,        \* its outcome: a return value or the exception raised
    hashSeed,   \* the process's string-hash seed: fixes set iteration order
    nops,       \* number of operations performed so far
    clean       \* TRUE while every call on the current object returned True

vars == <<values, alive, grid, op, arg, ret, hashSeed, nops, clean>>

----------------------------------------------------------------------------
(* Bounds *)

MaxOps == 3
FuelLog == 7

----------------------------------------------------------------------------
(* Topology: src/main.py lines 4-17 *)

Digits == 1..9
ROWS == 1..9
COLS == 1..9
CELLS == 1..81

Range(f) == {f[i] : i \in DOMAIN f}

Min(S) == CHOOSE x \in S : \A y \in S : x <= y

\* cross(r, c) for one row letter and one column digit: the cell r+c
cross(r, c) == (r - 1) * 9 + c

RowOf(s) == ((s - 1) \div 9) + 1
ColOf(s) == ((s - 1) % 9) + 1

ROW_UNITS == [r \in ROWS |-> [c \in COLS |-> cross(r, c)]]
COL_UNITS == [c \in COLS |-> [r \in ROWS |-> cross(r, c)]]
BOX_UNITS ==
    [b \in 1..9 |->
        [k \in 1..9 |->
            cross(3 * ((b - 1) \div 3) + ((k - 1) \div 3) + 1,
                  3 * ((b - 1) % 3) + ((k - 1) % 3) + 1)]]

ALL_UNITS == ROW_UNITS \o COL_UNITS \o BOX_UNITS

UNITS == [s \in CELLS |-> SelectSeq(ALL_UNITS, LAMBDA u : s \in Range(u))]

PEERS == [s \in CELLS |-> (UNION {Range(u) : u \in Range(UNITS[s])}) \ {s}]

----------------------------------------------------------------------------
(* Iteration order of Python sets of strings.  It depends on the string    *)
(* hash, which is fixed per process; a seed selects one order of the       *)
(* digits and one order of the cells, and a set is iterated in that order. *)

Seeds == {1, 2}

Mult == <<8, 1, 4, 2, 5, 7>>

DigitOrder ==
    [h \in Seeds |-> [k \in 1..9 |-> ((k * Mult[((h - 1) % 6) + 1]) % 9) + 1]]

CellOrder ==
    [h \in Seeds |-> [k \in 1..81 |-> ((k * Mult[((h - 1) % 6) + 1]) % 81) + 1]]

\* list(X) for a set X of digits
DigitList(h, X) == SelectSeq(DigitOrder[h], LAMBDA d : d \in X)

\* the order in which "for p in PEERS[cell]" visits the peers
PeerList == [h \in Seeds |-> [s \in CELLS |->
                SelectSeq(CellOrder[h], LAMBDA p : p \in PEERS[s])]]

\* next(iter(X)) for a one-element set X
TheOne(X) == CHOOSE d \in X : TRUE

----------------------------------------------------------------------------
(* Pure helpers of the class                                               *)

\* line 52: self.values[cell].remove(d)
Remove(cands, d) == cands \ {d}

\* sorted(X) for a set X of digits
Sorted(X) == SelectSeq([k \in 1..9 |-> k], LAMBDA d : d \in X)

\* _snapshot, lines 196-197: the cells in sorted order, each with its sorted digits
_snapshot(v) == [s \in CELLS |-> <<s, Sorted(v[s])>>]

\* _deepcopy and _restore, lines 240-244: a copy of the mapping
_deepcopy(v) == [s \in CELLS |-> v[s]]

\* unit_ok, lines 203-205: the singleton cells of the unit hold distinct digits
unit_ok(v, unit) ==
    LET single == {s \in Range(unit) : Cardinality(v[s]) = 1}
    IN  Cardinality(single) = Cardinality({TheOne(v[s]) : s \in single})

\* _valid_grid, lines 202-206
_valid_grid(v) == \A k \in DOMAIN ALL_UNITS : unit_ok(v, ALL_UNITS[k])

\* is_solved, lines 199-200
is_solved(v) == (\A s \in CELLS : Cardinality(v[s]) = 1) /\ _valid_grid(v)

\* the cells written column by column instead of in the order of CELLS
as_string_by_column(v) ==
    [k \in 1..81 |->
        LET s == cross(ColOf(k), RowOf(k))
        IN  IF Cardinality(v[s]) = 1 THEN TheOne(v[s]) ELSE 0]

\* as_string, lines 246-254: one character per cell, the digit of a cell with
\* one candidate and '.' (written 0) for any other cell
as_string(v) ==
    [k \in 1..81 |-> IF Cardinality(v[k]) = 1 THEN TheOne(v[k]) ELSE 0]

----------------------------------------------------------------------------
(* naked_pairs, lines 73-90, for one unit                                  *)

\* a removal that toggles the pair's digits instead of removing them
StripToggle(cands, candset) == (cands \ candset) \cup (candset \ cands)

\* line 86: self.values[s] -= candset
Strip(cands, candset) == cands \ candset

\* lines 83-89 for one candset: the cells of the unit outside the pair that
\* share a digit with it lose the pair's digits, in unit order, up to the
\* first cell left empty (line 88 returns there)
NakedStrip(v, unit, candset, cells) ==
    LET hit  == {k \in 1..9 : unit[k] \notin cells /\ v[unit[k]] \cap candset # {}}
        dead == {k \in hit : v[unit[k]] \subseteq candset}
        stop == IF dead = {} THEN 10 ELSE Min(dead)
        done == {unit[k] : k \in {j \in hit : j <= stop}}
    IN  [v     |-> [s \in CELLS |-> IF s \in done THEN Strip(v[s], candset) ELSE v[s]],
         empty |-> dead # {},
         chg   |-> \E k \in hit : k < stop]

\* lines 77-80: the candidate pairs of the unit in order of first appearance,
\* each with the cells of the unit that hold exactly that pair
NakedPairsOf(v, unit) ==
    LET twos  == SelectSeq(unit, LAMBDA s : Cardinality(v[s]) = 2)
        first == SelectSeq([k \in 1..Len(twos) |-> k],
                           LAMBDA k : \A j \in 1..(k - 1) : v[twos[j]] # v[twos[k]])
    IN  [n \in 1..Len(first) |->
            [candset |-> v[twos[first[n]]],
             cells   |-> {s \in Range(twos) : v[s] = v[twos[first[n]]]}]]

RECURSIVE NakedLoop(_, _, _, _, _)
\* lines 81-89: the pairs from position k on; a pair held by exactly two cells
\* (as counted at line 80, before any removal in this unit) is stripped
NakedLoop(v, unit, pairs, k, chg) ==
    IF k > Len(pairs) THEN [v |-> v, empty |-> FALSE, chg |-> chg]
    ELSE IF Cardinality(pairs[k].cells) = 2
         THEN LET r == NakedStrip(v, unit, pairs[k].candset, pairs[k].cells)
              IN  IF r.empty THEN r
                  ELSE NakedLoop(r.v, unit, pairs, k + 1, chg \/ r.chg)
         ELSE NakedLoop(v, unit, pairs, k + 1, chg)

NakedPairsUnit(v, unit) == NakedLoop(v, unit, NakedPairsOf(v, unit), 1, FALSE)

----------------------------------------------------------------------------
(* pointing_pairs, lines 92-165                                            *)

\* line 112: the units of cell c0 that neither contain the box nor meet it;
\* next() over them raises StopIteration when there is none
DraftOutUnits(box, c0) ==
    {k \in DOMAIN UNITS[c0] :
        /\ ~(Range(box) \subseteq Range(UNITS[c0][k]))
        /\ Range(UNITS[c0][k]) \cap Range(box) = {}}

\* lines 98-112: for a box, every key (r, d) of rows lists between 1 and 3
\* cells, so line 112 is reached for the first key of the first box that has
\* a candidate at all, with cells[0] a cell of the box listing d
DraftRaises(v) ==
    \E b \in DOMAIN BOX_UNITS : \E s \in Range(BOX_UNITS[b]) : \E d \in v[s] :
        LET row == SelectSeq(BOX_UNITS[b],
                             LAMBDA c : RowOf(c) = RowOf(s) /\ d \in v[c])
        IN  DraftOutUnits(BOX_UNITS[b], row[1]) = {}

\* lines 121-133 and 148-164 for one box: the digits confined, within the box,
\* to one row (and, when cols is TRUE, to one column) by at least two cells
\* leave the rest of that row (column)
BoxLine(v, box, cols) ==
    LET pos(d)  == {p \in Range(box) : d \in v[p]}
        inRow(d, s) == Cardinality(pos(d)) >= 2 /\ {RowOf(p) : p \in pos(d)} = {RowOf(s)}
        inCol(d, s) == Cardinality(pos(d)) >= 2 /\ {ColOf(p) : p \in pos(d)} = {ColOf(s)}
    IN  [s \in CELLS |->
            IF s \in Range(box) THEN v[s]
            ELSE {d \in v[s] : ~(inRow(d, s) \/ (cols /\ inCol(d, s)))}]

RECURSIVE BoxLoop(_, _, _)
\* the boxes from b on, in the order of BOX_UNITS
BoxLoop(v, b, cols) ==
    IF b > Len(BOX_UNITS) THEN v
    ELSE BoxLoop(BoxLine(v, BOX_UNITS[b], cols), b + 1, cols)

\* _pointing_pairs_final, lines 141-165
_pointing_pairs_final(v, changed_in) ==
    LET w == BoxLoop(v, 1, TRUE)
    IN  [v |-> w, chg |-> changed_in \/ w # v]

\* _pointing_pairs_clean, lines 116-139: the row part, then the final pass
_pointing_pairs_clean(v) ==
    LET w == BoxLoop(v, 1, FALSE)
    IN  _pointing_pairs_final(w, w # v)

----------------------------------------------------------------------------
(* search's choice point, lines 215-224                                    *)

\* line 216: min() returns the first cell of CELLS with the fewest candidates
MRVCell(v) ==
    LET unsolved == {s \in CELLS : Cardinality(v[s]) > 1}
        least    == Min({Cardinality(v[s]) : s \in unsolved})
    IN  Min({s \in unsolved : Cardinality(v[s]) = least})

\* lines 218-223
lcv_score(v, cell, d) == Cardinality({p \in PEERS[cell] : d \in v[p]})

\* line 224: a stable sort of the set's iteration order by the score
LCVOrder(h, v, cell) ==
    LET lst == DigitList(h, v[cell])
        key(k) == lcv_score(v, cell, lst[k]) * 10 + k
    IN  [n \in 1..Len(lst) |->
            lst[CHOOSE k \in 1..Len(lst) :
                    Cardinality({j \in 1..Len(lst) : key(j) < key(k)}) = n - 1]]

----------------------------------------------------------------------------
(* The methods that call one another.                                      *)
(*                                                                         *)
(* The calls are modelled by the call stack: a frame per active call,      *)
(* holding the call's arguments, its local variables and its position, and *)
(* Step executes the code of the frame on top of the stack up to its next  *)
(* call, return or raise.  The calls are made in the order of the code and *)
(* a loop that stops at the first failing callee stops there, so the board *)
(* a failed call leaves behind is the one the code leaves behind.  No      *)
(* method catches an exception: a raise empties the stack.                 *)

Frame(fn, cell, d, lst) ==
    [fn |-> fn, cell |-> cell, d |-> d, d2 |-> 0, pc |-> 0, i |-> 1,
     lst |-> lst, chg |-> FALSE, snap |-> <<>>]

\* assign(cell, d) called on board v: lst is list(other) of lines 45-46
AFrame(h, v, cell, d) == Frame("assign", cell, d, DigitList(h, v[cell] \ {d}))

EFrame(cell, d) == Frame("eliminate", cell, d, <<>>)

\* peers taken from the row and the column only, the box forgotten
PeersOfRowCol(h, cell) ==
    SelectSeq(PeerList[h][cell],
              LAMBDA p : RowOf(p) = RowOf(cell) \/ ColOf(p) = ColOf(cell))

\* the order in which the loop of line 59 visits the peers of cell
PeersOf(h, cell) == PeerList[h][cell]

\* the machine: board, call stack, value returned by the last call that
\* returned, whether the frame on top is resumed after a call it made, and
\* the exception raised, if any
Machine(v, st, r, back, exc) ==
    [v |-> v, st |-> st, r |-> r, back |-> back, exc |-> exc]

NumUnits == Len(ALL_UNITS)

Step(h, M) ==
    LET n == Len(M.st)
        f == M.st[n]
        below == SubSeq(M.st, 1, n - 1)
        v == M.v
        failed == M.back /\ ~M.r
        Return(w, b) == Machine(w, below, b, TRUE, "")
        Raise(e) == Machine(v, <<>>, FALSE, TRUE, e)
        Goto(w, f2) == Machine(w, Append(below, f2), TRUE, FALSE, "")
        Call(w, f2, callee) ==
            Machine(w, Append(Append(below, f2), callee), TRUE, FALSE, "")
    IN
    CASE f.fn = "init" ->
         \* lines 30-33; f.lst is the grid string, f.i the next cell
         IF failed THEN Raise("ValueError: contradiction on load")
         ELSE LET todo == {j \in f.i..81 : f.lst[j] \in Digits}
              IN  IF todo = {} THEN Return(v, TRUE)
                  ELSE Call(v, [f EXCEPT !.i = Min(todo) + 1],
                            AFrame(h, v, Min(todo), f.lst[Min(todo)]))
      [] f.fn = "assign" ->
         \* line 46: all() stops at the first False
         IF failed THEN Return(v, FALSE)
         ELSE IF f.i > Len(f.lst) THEN Return(v, TRUE)
         ELSE Call(v, [f EXCEPT !.i = @ + 1], EFrame(f.cell, f.lst[f.i]))
      [] f.fn = "eliminate" /\ f.pc = 0 ->
         \* lines 50-57
         IF f.d \notin v[f.cell] THEN Return(v, TRUE)
         ELSE LET v1 == [v EXCEPT ![f.cell] = Remove(@, f.d)]
              IN  IF Cardinality(v1[f.cell]) = 0 THEN Return(v1, FALSE)
                  ELSE IF Cardinality(v1[f.cell]) = 1
                       THEN Goto(v1, [f EXCEPT !.pc = 1, !.d2 = TheOne(v1[f.cell])])
                       ELSE Goto(v1, [f EXCEPT !.pc = 2])
      [] f.fn = "eliminate" /\ f.pc = 1 ->
         \* lines 59-61; a peer that does not list d2 is passed over: the call
         \* eliminate(p, d2) returns True at line 51 and changes nothing
         IF failed THEN Return(v, FALSE)
         ELSE LET peers == PeersOf(h, f.cell)
                  todo == {j \in f.i..Len(peers) : f.d2 \in v[peers[j]]}
              IN  IF todo = {} THEN Goto(v, [f EXCEPT !.pc = 2, !.i = 1])
                  ELSE Call(v, [f EXCEPT !.i = Min(todo) + 1],
                            EFrame(peers[Min(todo)], f.d2))
      [] f.fn = "eliminate" /\ f.pc = 2 ->
         \* lines 63-69
         IF failed THEN Return(v, FALSE)
         ELSE IF f.i > Len(UNITS[f.cell]) THEN Return(v, TRUE)
         ELSE LET places == SelectSeq(UNITS[f.cell][f.i], LAMBDA s : f.d \in v[s])
              IN  IF Len(places) = 0 THEN Return(v, FALSE)
                  ELSE IF Len(places) = 1
                       THEN Call(v, [f EXCEPT !.i = @ + 1], AFrame(h, v, places[1], f.d))
                       ELSE Goto(v, [f EXCEPT !.i = @ + 1])
      [] f.fn = "hidden_singles" ->
         \* lines 169-177; f.i counts the pairs (unit, d) in loop order and
         \* f.chg is changed, set once the assign of line 174 did not fail
         IF failed THEN Return(v, FALSE)
         ELSE IF f.i > NumUnits * 9 THEN Return(v, f.chg)
         ELSE LET unit == ALL_UNITS[((f.i - 1) \div 9) + 1]
                  d == DigitOrder[h][((f.i - 1) % 9) + 1]
                  places == SelectSeq(unit, LAMBDA s : d \in v[s])
              IN  IF Len(places) = 1
                  THEN Call(v, [f EXCEPT !.i = @ + 1, !.chg = TRUE],
                            AFrame(h, v, places[1], d))
                  ELSE Goto(v, [f EXCEPT !.i = @ + 1])
      [] f.fn = "naked_pairs" ->
         \* lines 75-90; f.i is the next unit, f.chg is changed
         IF f.i > NumUnits THEN Return(v, f.chg)
         ELSE LET r == NakedPairsUnit(v, ALL_UNITS[f.i])
              IN  IF r.empty THEN Return(r.v, FALSE)
                  ELSE Goto(r.v, [f EXCEPT !.i = @ + 1, !.chg = f.chg \/ r.chg])
      [] f.fn = "pointing_pairs" ->
         \* lines 97-114
         IF DraftRaises(v) THEN Raise("StopIteration")
         ELSE LET r == _pointing_pairs_clean(v)
              IN  Return(r.v, r.chg)
      [] f.fn = "propagate_all" /\ f.pc = 0 ->
         \* lines 181-185; f.chg is stalled, f.snap the snapshot of line 183
         IF f.chg THEN Return(v, TRUE)
         ELSE Call(v, [f EXCEPT !.pc = 1, !.snap = _snapshot(v)],
                   Frame("hidden_singles", 0, 0, <<>>))
      [] f.fn = "propagate_all" /\ f.pc = 1 ->
         \* lines 185-187: hidden_singles() is False
         IF ~M.r THEN Return(v, FALSE)
         ELSE Call(v, [f EXCEPT !.pc = 2], Frame("naked_pairs", 0, 0, <<>>))
      [] f.fn = "propagate_all" /\ f.pc = 2 ->
         \* lines 188-190: res is False
         IF ~M.r THEN Return(v, FALSE)
         ELSE Call(v, [f EXCEPT !.pc = 3], Frame("pointing_pairs", 0, 0, <<>>))
      [] f.fn = "propagate_all" /\ f.pc = 3 ->
         \* lines 191-193: changed_pp is False
         IF ~M.r THEN Return(v, FALSE)
         ELSE Goto(v, [f EXCEPT !.pc = 0, !.chg = (f.snap = _snapshot(v))])
      [] f.fn = "search" /\ f.pc = 0 ->
         \* line 210
         Call(v, [f EXCEPT !.pc = 1], Frame("propagate_all", 0, 0, <<>>))
      [] f.fn = "search" /\ f.pc = 1 ->
         \* lines 210-225; r FALSE stands for None, TRUE for self.values
         IF ~M.r THEN Return(v, FALSE)
         ELSE IF is_solved(v) THEN Return(v, TRUE)
         ELSE IF \A s \in CELLS : Cardinality(v[s]) <= 1
              THEN Raise("ValueError: min() arg is an empty sequence")
              ELSE Goto(v, [f EXCEPT !.pc = 2, !.cell = MRVCell(v), !.i = 1,
                                     !.lst = LCVOrder(h, v, MRVCell(v)),
                                     !.snap = _deepcopy(v)])
      [] f.fn = "search" /\ f.pc = 2 ->
         \* lines 226-229 and 232: restore the snapshot and assign the next digit
         IF f.i > Len(f.lst) THEN Return(v, FALSE)
         ELSE Call(f.snap, [f EXCEPT !.pc = 3], AFrame(h, f.snap, f.cell, f.lst[f.i]))
      [] f.fn = "search" /\ f.pc = 3 ->
         \* lines 229-231: the assign failed, or search is called
         IF ~M.r THEN Goto(f.snap, [f EXCEPT !.pc = 2, !.i = @ + 1])
         ELSE Call(v, [f EXCEPT !.pc = 4], Frame("search", 0, 0, <<>>))
      [] f.fn = "search" /\ f.pc = 4 ->
         \* lines 229-231: the recursive search returned
         IF M.r THEN Return(v, TRUE)
         ELSE Goto(f.snap, [f EXCEPT !.pc = 2, !.i = @ + 1])
      [] f.fn = "solve" /\ f.pc = 0 ->
         \* line 235
         Call(v, [f EXCEPT !.pc = 1], Frame("search", 0, 0, <<>>))
      [] f.fn = "solve" /\ f.pc = 1 ->
         \* lines 235-237
         IF M.r THEN Return(v, TRUE)
         ELSE Raise("ValueError: No solution found")

\* Step repeated until the stack is empty, at most 8^k times
RECURSIVE Iter(_, _, _)
Iter(h, k, M) ==
    IF k = 0 THEN Step(h, M)
    ELSE LET M1 == Iter(h, k - 1, M)
             M2 == Iter(h, k - 1, M1)
             M3 == Iter(h, k - 1, M2)
             M4 == Iter(h, k - 1, M3)
             M5 == Iter(h, k - 1, M4)
             M6 == Iter(h, k - 1, M5)
             M7 == Iter(h, k - 1, M6)
         IN  IF M1.st = <<>> THEN M1
             ELSE IF M2.st = <<>> THEN M2
             ELSE IF M3.st = <<>> THEN M3
             ELSE IF M4.st = <<>> THEN M4
             ELSE IF M5.st = <<>> THEN M5
             ELSE IF M6.st = <<>> THEN M6
             ELSE IF M7.st = <<>> THEN M7
             ELSE Iter(h, k - 1, M7)

\* one outermost call run to its end: the board it leaves and its outcome,
\* "True" or "False" for a returned value, else the exception raised
Run(h, v, frame) ==
    LET M == Iter(h, FuelLog, Machine(v, <<frame>>, TRUE, FALSE, ""))
    IN  [v   |-> M.v,
         out |-> IF M.st # <<>> THEN "unfinished"
                 ELSE IF M.exc # "" THEN M.exc
                 ELSE IF M.r THEN "True" ELSE "False"]

----------------------------------------------------------------------------
(* The public operations, each on the board v                              *)

AllCandidates == [s \in CELLS |-> Digits]

\* __init__, lines 24-33, for an 81-character string
Construct(h, g) == Run(h, AllCandidates, Frame("init", 0, 0, g))

assign(h, v, cell, d) == Run(h, v, AFrame(h, v, cell, d))

eliminate(h, v, cell, d) == Run(h, v, EFrame(cell, d))

hidden_singles(h, v) == Run(h, v, Frame("hidden_singles", 0, 0, <<>>))

naked_pairs(h, v) == Run(h, v, Frame("naked_pairs", 0, 0, <<>>))

pointing_pairs(h, v) == Run(h, v, Frame("pointing_pairs", 0, 0, <<>>))

propagate_all(h, v) == Run(h, v, Frame("propagate_all", 0, 0, <<>>))

search(h, v) == Run(h, v, Frame("search", 0, 0, <<>>))

solve(h, v) == Run(h, v, Frame("solve", 0, 0, <<>>))

----------------------------------------------------------------------------
(* Grid strings used as inputs: 0 stands for a character that is no digit  *)

\* a complete valid grid
Full ==
    << 5,3,4,6,7,8,9,1,2,  6,7,2,1,9,5,3,4,8,  1,9,8,3,4,2,5,6,7,
       8,5,9,7,6,1,4,2,3,  4,2,6,8,5,3,7,9,1,  7,1,3,9,2,4,8,5,6,
       9,6,1,5,3,7,2,8,4,  2,8,7,4,1,9,6,3,5,  3,4,5,2,8,6,1,7,9 >>

\* a puzzle whose only solution is Full, solved by the propagation of its load
Easy ==
    << 5,3,0,0,7,0,0,0,0,  6,0,0,1,9,5,0,0,0,  0,9,8,0,0,0,0,6,0,
       8,0,0,0,6,0,0,0,3,  4,0,0,8,0,3,0,0,1,  7,0,0,0,2,0,0,0,6,
       0,6,0,0,0,0,2,8,0,  0,0,0,4,1,9,0,0,5,  0,0,0,0,8,0,0,7,9 >>

\* the puzzle of line 278
Hard ==
    << 0,0,0,0,0,0,9,0,7,  0,0,0,4,2,0,1,8,0,  0,0,0,7,0,5,0,2,6,
       1,0,0,9,0,4,0,0,0,  0,5,0,0,0,0,0,4,0,  0,0,0,5,0,7,0,0,9,
       9,2,0,1,0,8,0,0,0,  0,3,4,0,5,9,0,0,0,  5,0,7,0,0,0,0,0,0 >>

\* the solution of Hard
HardSolution ==
    << 4,6,2,8,3,1,9,5,7,  7,9,5,4,2,6,1,8,3,  3,8,1,7,9,5,4,2,6,
       1,7,3,9,8,4,2,6,5,  6,5,9,3,1,2,7,4,8,  2,4,8,5,6,7,3,1,9,
       9,2,6,1,7,8,5,3,4,  8,3,4,2,5,9,6,7,1,  5,1,7,6,4,3,8,9,2 >>

\* clues of Full that the load leaves unsolved, with a naked pair in a unit
Pairs ==
    << 0,0,0,0,0,8,9,1,2,  0,0,0,1,0,0,0,0,0,  1,9,0,3,4,0,0,6,0,
       0,5,0,7,0,1,0,0,3,  0,2,0,0,0,0,0,9,0,  7,0,3,0,0,0,0,0,6,
       0,6,1,5,0,0,0,8,4,  2,0,7,4,0,0,0,0,0,  3,0,5,0,8,6,0,0,0 >>

\* a puzzle with no solution whose clues load without a contradiction
Unsolvable ==
    << 0,0,4,0,0,6,0,0,2,  6,7,2,1,9,0,3,4,8,  0,9,8,0,4,2,5,0,0,
       0,5,0,0,6,0,0,0,0,  4,0,6,0,0,3,7,9,1,  0,0,3,0,0,0,0,0,0,
       0,6,0,0,3,7,0,8,0,  0,0,0,0,1,9,0,0,0,  3,0,0,0,8,0,0,7,0 >>

\* Full with the digit of A1 repeated in A2
FullDup ==
    << 5,5,4,6,7,8,9,1,2,  6,7,2,1,9,5,3,4,8,  1,9,8,3,4,2,5,6,7,
       8,5,9,7,6,1,4,2,3,  4,2,6,8,5,3,7,9,1,  7,1,3,9,2,4,8,5,6,
       9,6,1,5,3,7,2,8,4,  2,8,7,4,1,9,6,3,5,  3,4,5,2,8,6,1,7,9 >>

\* Easy with the digit of A1 repeated in A2
EasyDup ==
    << 5,5,0,0,7,0,0,0,0,  6,0,0,1,9,5,0,0,0,  0,9,8,0,0,0,0,6,0,
       8,0,0,0,6,0,0,0,3,  4,0,0,8,0,3,0,0,1,  7,0,0,0,2,0,0,0,6,
       0,6,0,0,0,0,2,8,0,  0,0,0,4,1,9,0,0,5,  0,0,0,0,8,0,0,7,9 >>

\* no clue at all
Blank == [k \in 1..81 |-> 0]

Puzzles == {Full, Easy, Hard, Pairs, Unsolvable, FullDup, EasyDup, Blank}

\* the cell assign and eliminate are called on (F8) and the digits they are given
TestCells == {53}
TestDigits == {2, 5}

----------------------------------------------------------------------------
(* The state machine: a process constructs a solver from a grid string and *)
(* then calls its methods in any order.                                    *)

Init ==
    /\ values = AllCandidates
    /\ alive = FALSE
    /\ grid \in Puzzles
    /\ op = "none"
    /\ arg = <<>>
    /\ ret = "none"
    /\ hashSeed \in Seeds
    /\ nops = 0
    /\ clean = TRUE

\* the outcome of a call of a method of the object
Called(name, a, r) ==
    /\ values' = r.v
    /\ op' = name
    /\ arg' = a
    /\ ret' = r.out
    /\ nops' = nops + 1
    /\ clean' = (clean /\ r.out = "True")
    /\ UNCHANGED <<alive, grid, hashSeed>>

\* SudokuSolver(grid)
New ==
    /\ op = "none"
    /\ LET r == Construct(hashSeed, grid)
       IN  /\ values' = r.v
           /\ alive' = (r.out = "True")
           /\ clean' = (r.out = "True")
           /\ ret' = r.out
    /\ op' = "init"
    /\ arg' = <<>>
    /\ nops' = nops + 1
    /\ UNCHANGED <<grid, hashSeed>>

\* SudokuSolver(s.as_string()): a new object from the text of the board
Reload ==
    /\ alive
    /\ nops < MaxOps
    /\ LET g == as_string(values)
           r == Construct(hashSeed, g)
       IN  /\ values' = r.v
           /\ alive' = (r.out = "True")
           /\ clean' = (r.out = "True")
           /\ ret' = r.out
           /\ grid' = g
    /\ op' = "reload"
    /\ arg' = <<>>
    /\ nops' = nops + 1
    /\ UNCHANGED hashSeed

Assign ==
    /\ alive
    /\ nops < MaxOps
    /\ \E c \in TestCells, d \in TestDigits :
         Called("assign", <<c, d>>, assign(hashSeed, values, c, d))

Eliminate ==
    /\ alive
    /\ nops < MaxOps
    /\ \E c \in TestCells, d \in TestDigits :
         Called("eliminate", <<c, d>>, eliminate(hashSeed, values, c, d))

HiddenSingles ==
    /\ alive
    /\ nops < MaxOps
    /\ Called("hidden_singles", <<>>, hidden_singles(hashSeed, values))

NakedPairs ==
    /\ alive
    /\ nops < MaxOps
    /\ Called("naked_pairs", <<>>, naked_pairs(hashSeed, values))

PointingPairs ==
    /\ alive
    /\ nops < MaxOps
    /\ Called("pointing_pairs", <<>>, pointing_pairs(hashSeed, values))

PropagateAll ==
    /\ alive
    /\ nops < MaxOps
    /\ Called("propagate_all", <<>>, propagate_all(hashSeed, values))

Solve ==
    /\ alive
    /\ nops < MaxOps
    /\ Called("solve", <<>>, solve(hashSeed, values))

Next ==
    \/ New
    \/ Reload
    \/ Assign
    \/ Eliminate
    \/ HiddenSingles
    \/ NakedPairs
    \/ PointingPairs
    \/ PropagateAll
    \/ Solve

Spec == Init /\ [][Next]_vars

----------------------------------------------------------------------------
(* Vocabulary of the properties                                            *)

\* every character of the grid string is a digit
IsFullGrid(g) == \A k \in 1..81 : g[k] \in Digits

\* a complete grid in which every unit holds each digit once
IsValidGrid(g) ==
    /\ IsFullGrid(g)
    /\ \A k \in DOMAIN ALL_UNITS : {g[s] : s \in Range(ALL_UNITS[k])} = Digits

\* the grid S carries every clue of the grid string g
Agrees(S, g) == \A k \in 1..81 : g[k] \in Digits => S[k] = g[k]

KnownGrids == {Full, HardSolution}

\* the solutions of g among the known complete grids
SolutionsOf(g) == {S \in KnownGrids : IsValidGrid(S) /\ Agrees(S, g)}

\* two clue cells that are peers carry the same digit
PeerClash(g) ==
    \E k \in 1..81 : g[k] \in Digits /\ \E p \in PEERS[k] : g[p] = g[k]

\* a cell without a candidate, or a unit with no place left for a digit
Contradiction(v) ==
    \/ \E s \in CELLS : v[s] = {}
    \/ \E k \in DOMAIN ALL_UNITS : \E d \in Digits :
          \A s \in Range(ALL_UNITS[k]) : d \notin v[s]

Max(S) == CHOOSE x \in S : \A y \in S : x >= y

\* A reference search, independent of the solver: the blank cells are filled
\* in the order of CELLS with the least digit no peer holds, and the last
\* choice is undone when none is left.  R.k is the cell being decided, 82
\* once the grid is complete and 0 once every choice has been undone.
RefStep(g0, R) ==
    LET free == {j \in 1..81 : g0[j] = 0}
        next == {d \in Digits : d > R.g[R.k] /\ \A p \in PEERS[R.k] : R.g[p] # d}
        fwd  == {j \in free : j > R.k}
        bwd  == {j \in free : j < R.k}
    IN  IF next # {}
        THEN [g |-> [R.g EXCEPT ![R.k] = Min(next)],
              k |-> IF fwd = {} THEN 82 ELSE Min(fwd)]
        ELSE [g |-> [R.g EXCEPT ![R.k] = 0],
              k |-> IF bwd = {} THEN 0 ELSE Max(bwd)]

RECURSIVE RefIter(_, _, _)
RefIter(g0, n, R) ==
    IF n = 0 THEN RefStep(g0, R)
    ELSE LET R1 == RefIter(g0, n - 1, R)
             R2 == RefIter(g0, n - 1, R1)
             R3 == RefIter(g0, n - 1, R2)
             R4 == RefIter(g0, n - 1, R3)
             R5 == RefIter(g0, n - 1, R4)
             R6 == RefIter(g0, n - 1, R5)
             R7 == RefIter(g0, n - 1, R6)
         IN  IF R1.k \in {0, 82} THEN R1
             ELSE IF R2.k \in {0, 82} THEN R2
             ELSE IF R3.k \in {0, 82} THEN R3
             ELSE IF R4.k \in {0, 82} THEN R4
             ELSE IF R5.k \in {0, 82} THEN R5
             ELSE IF R6.k \in {0, 82} THEN R6
             ELSE IF R7.k \in {0, 82} THEN R7
             ELSE RefIter(g0, n - 1, R7)

\* no complete valid grid carries the clues of g0
NoSolution(g0) ==
    /\ SolutionsOf(g0) = {}
    /\ \/ PeerClash(g0)
       \/ /\ ~IsFullGrid(g0)
          /\ RefIter(g0, FuelLog,
                     [g |-> g0, k |-> Min({j \in 1..81 : g0[j] = 0})]).k = 0

\* the methods that only propagate (no guess of search)
PropagationOps ==
    {"hidden_singles", "naked_pairs", "pointing_pairs", "propagate_all"}

\* the methods the board is changed with, other than search's restore
BoardOps == PropagationOps \cup {"assign", "eliminate"}

\* the state right after the call of method m on a newly constructed object
FirstCall(m) == op = m /\ nops = 2

----------------------------------------------------------------------------
(* The properties                                                          *)

\* C1: solve() on a puzzle that loaded without contradiction and has a
\* solution returns normally and leaves a solved board: every cell has one
\* candidate, no unit holds a digit twice, every clue cell holds its clue.
SolveSolvesSolvable ==
    (FirstCall("solve") /\ SolutionsOf(grid) # {}) =>
        /\ ret = "True"
        /\ is_solved(values)
        /\ \A k \in 1..81 : grid[k] \in Digits => values[k] = {grid[k]}

\* C2: for a fully filled grid string a board is constructed, and solve()
\* reports its verdict on it by returning, whether the grid is valid or a
\* row holds a digit twice; neither the construction nor solve() raises.
FullGridClassified ==
    IsFullGrid(grid) =>
        /\ op = "init" => alive
        /\ FirstCall("solve") => ret = "True"

\* C3: solve() on a puzzle that loaded without contradiction and has no
\* solution fails with the "no solution" error and with no other exception.
UnsolvableFailsCleanly ==
    (FirstCall("solve") /\ NoSolution(grid)) =>
        ret = "ValueError: No solution found"

\* C4: propagate_all() returns failure only when a strategy detected a
\* contradiction (a cell left without a candidate, or a unit without a place
\* for a digit); a strategy that changed nothing does not make it fail.
PropagateFailsOnlyOnContradiction ==
    (op = "propagate_all" /\ ret = "False") => Contradiction(values)

\* C5: on a board reached from a successful construction by calls of the
\* public operations that all returned True, whenever assign(cell, d) returns
\* success the candidate set of cell is exactly {d} and no peer of cell
\* lists d.
AssignPeerConsistent ==
    (op = "assign" /\ ret = "True" /\ clean) =>
        /\ values[arg[1]] = {arg[2]}
        /\ \A p \in PEERS[arg[1]] : arg[2] \notin values[p]

\* C6: construction from a grid string is all-or-nothing: it raises the
\* contradiction-on-load error, and gives no object, whenever two clue cells
\* that are peers carry the same digit; and whenever it gives an object,
\* every clue cell's candidate set is exactly its clue, no candidate set is
\* empty and no peer of a clue cell lists that cell's clue.
ConstructionAllOrNothing ==
    op \in {"init", "reload"} =>
        /\ alive <=> ret = "True"
        /\ ~alive <=> ret = "ValueError: contradiction on load"
        /\ PeerClash(grid) => ~alive
        /\ alive =>
             /\ \A s \in CELLS : values[s] # {}
             /\ \A k \in 1..81 : grid[k] \in Digits =>
                   /\ values[k] = {grid[k]}
                   /\ \A p \in PEERS[k] : grid[k] \notin values[p]

\* a construction refused because two peers carry the same clue
ConstructionRefused ==
    /\ op = "init"
    /\ PeerClash(grid)
    /\ ret = "ValueError: contradiction on load"

\* C7: round trip: a board constructed from the as_string() of a solved board
\* (a complete valid grid string) is constructed without error, is solved at
\* once and has the same as_string().
RoundTrip ==
    (op = "reload" /\ IsValidGrid(grid)) =>
        /\ alive
        /\ is_solved(values)
        /\ as_string(values) = grid

\* a solved board was written out and read back
RoundTripDone ==
    /\ op = "reload"
    /\ IsValidGrid(grid)
    /\ alive

\* C8: monotonicity: a call of assign, eliminate, hidden_singles, naked_pairs,
\* pointing_pairs or propagate_all, whether it succeeds or fails, leaves every
\* cell with a subset of the candidates it had before the call.
Monotone ==
    [][op' \in BoardOps => \A s \in CELLS : values'[s] \subseteq values[s]]_vars

\* a call that failed after removing candidates, down to an empty cell
FailedCallShrank ==
    /\ op = "assign"
    /\ ret = "False"
    /\ \E s \in CELLS : values[s] = {}

\* C9: propagation never discards a digit of a solution: after construction
\* and after a propagation step on the constructed board, every cell still
\* lists the digit of every solution of the puzzle, and neither the
\* construction nor propagate_all reports a contradiction.
PropagationKeepsSolutions ==
    \A S \in SolutionsOf(grid) :
        (op = "init" \/ \E m \in PropagationOps : FirstCall(m)) =>
            /\ \A s \in CELLS : S[s] \in values[s]
            /\ op = "init" => ret = "True"
            /\ op = "propagate_all" => ret # "False"

\* C10: pointing_pairs() on a board with no empty candidate set completes
\* and returns a status.
PointingPairsReturns ==
    (op = "pointing_pairs" /\ \A s \in CELLS : values[s] # {}) =>
        ret \in {"True", "False"}

====
